---- MODULE Spec2Model ----
(***************************************************************************)
(* A model of the Monero seed codec of src/src/lib.rs: the Seed object     *)
(* (32 bytes of entropy), its three constructors (new, generate,           *)
(* from_seed_words) and its two queries (seed_words, to_address).          *)
(*                                                                         *)
(* Representation.  A byte string is a sequence of numbers 0..255, a word  *)
(* a sequence of character codes, a phrase a sequence of words.  A u32 is  *)
(* kept as a pair <<hi, lo>> of 16-bit halves, and a 256-bit scalar as its *)
(* 32 little-endian bytes, so that no intermediate value leaves the range  *)
(* of TLC's integers while every program value keeps its width.            *)
(***************************************************************************)
EXTENDS Integers, Sequences, FiniteSets, TLC

VARIABLES
    seed,       \* the Seed the caller holds: [inner |-> 32 bytes], or NoSeed
    origin,     \* the Seed whose seed_words() produced `words`, or NoSeed
    words,      \* the phrase last returned by seed_words(), or <<>>
    input,      \* the phrase last passed to from_seed_words, or <<>>
    entropy,    \* the bytes generate_entropy() returned to generate(), or <<>>
    call,       \* the last call: [op |-> name, arg |-> its argument]
    ret         \* what it returned: [ok |-> BOOLEAN, val |-> value, err |-> name]

vars == <<seed, origin, words, input, entropy, call, ret>>

----------------------------------------------------------------------------
(* Bounds of the model: the sizes of the input families below.             *)

\* entropy inputs: the lowest byte ranges over 0..MaxLow
MaxLow == 1
\* phrase inputs: the word indices of a triple range over 0..MaxIdx
MaxIdx == 1
\* phrase inputs: trailing-character variants 0..MaxTail of each word
MaxTail == 1

----------------------------------------------------------------------------
(* Program constants.                                                      *)

TRIM_LENGTH == 3

\* ENGLISH.len(); seed_words() spells it out as `let length = 1626`
length == 1626

----------------------------------------------------------------------------
(* Results.                                                                *)

NoSeed == [inner |-> <<>>]

Ok(v) == [ok |-> TRUE, val |-> v, err |-> ""]

\* an error with the value it carries (<<>> when it carries none)
Err(e, v) == [ok |-> FALSE, val |-> v, err |-> e]

\* e, the value v computed first: the program computes an argument before
\* the call it is passed to
ByValue(v, e) == IF v = v THEN e ELSE e

----------------------------------------------------------------------------
(* The word dictionary (mod mnemonics, not part of the sources at hand).   *)
(* What the codec needs of it: an ordered list of `length` distinct words  *)
(* whose first TRIM_LENGTH characters are pairwise distinct.  Word i is    *)
(* modelled as three lower-case letters that spell i in base 26, followed  *)
(* by one or two further letters.                                          *)

ENGLISH(i) ==
    <<97 + (i \div 676), 97 + ((i \div 26) % 26), 97 + (i % 26)>>
        \o (IF i % 2 = 0 THEN <<120>> ELSE <<121, 122>>)

\* Trim, had TRIM_LENGTH been one more
Trim4(w) ==
    SubSeq(w, 1, IF Len(w) < TRIM_LENGTH + 1 THEN Len(w) ELSE TRIM_LENGTH + 1)

\* w.chars().take(TRIM_LENGTH).collect()
Trim(w) == SubSeq(w, 1, IF Len(w) < TRIM_LENGTH THEN Len(w) ELSE TRIM_LENGTH)

\* ENGLISH.iter().map(|w| w.chars().take(TRIM_LENGTH).collect())
trimmed_words_list == [i \in 0..(length - 1) |-> Trim(ENGLISH(i))]

\* The one place of the dictionary where a word starting like w can stand.
Slot(w) ==
    IF Len(w) >= 3 /\ \A k \in 1..3 : w[k] \in 97..122
    THEN (w[1] - 97) * 676 + (w[2] - 97) * 26 + (w[3] - 97)
    ELSE -1

\* find_word_index(list, word): the position of `word` in `list`, or the
\* unknown-word error, which carries at most the word it was asked for.
\* The list holds its entries in the order of Slot, so one probe decides.
find_word_index(list, w) ==
    LET c == Slot(w)
    IN  IF c \in DOMAIN list /\ list[c] = w
        THEN Ok(c)
        ELSE Err("UnknownWord", w)

----------------------------------------------------------------------------
(* Bit operations on numbers below 2^16 and on u32 pairs.                  *)

RECURSIVE Xor(_, _)
Xor(a, b) ==
    IF a = 0 THEN b
    ELSE IF b = 0 THEN a
    ELSE ((a + b) % 2) + 2 * Xor(a \div 2, b \div 2)

NibbleXor == [a \in 0..15 |-> [b \in 0..15 |-> Xor(a, b)]]

Xor8(a, b) ==
    NibbleXor[a \div 16][b \div 16] * 16 + NibbleXor[a % 16][b % 16]

Xor16(a, b) == Xor8(a \div 256, b \div 256) * 256 + Xor8(a % 256, b % 256)

Xor32(v, w) == <<Xor16(v[1], w[1]), Xor16(v[2], w[2])>>

\* v >> k for 0 < k < 16
Shr(v, k) ==
    LET p == 2 ^ k
    IN  <<v[1] \div p, (v[1] % p) * (65536 \div p) + (v[2] \div p)>>

\* v % m for a u32 v and 0 < m < 2^15
Mod32(v, m) == ((v[1] % m) * (65536 % m) + v[2]) % m

----------------------------------------------------------------------------
(* crc::crc32 with the IEEE polynomial (reflected 0xEDB88320, start and    *)
(* final xor 0xFFFFFFFF), table driven as in the crate.                    *)

\* k more of the eight shifts that make a table entry, v being the entry
\* so far
RECURSIVE TableEntry(_, _)
TableEntry(v, k) ==
    IF k = 0 THEN v
    ELSE LET next == IF v[2] % 2 = 1
                     THEN Xor32(Shr(v, 1), <<60856, 33568>>)
                     ELSE Shr(v, 1)
         IN  IF next[1] < 0 THEN next ELSE TableEntry(next, k - 1)

IEEE_TABLE == SubSeq([n \in 1..256 |-> TableEntry(<<0, n - 1>>, 8)], 1, 256)

\* digest.write(data), bytes lo..hi of it; the range is halved so that the
\* evaluation stays shallow on long data
RECURSIVE CrcWrite(_, _, _, _)
CrcWrite(crc, data, lo, hi) ==
    IF lo > hi THEN crc
    ELSE IF lo = hi
    THEN Xor32(IEEE_TABLE[Xor8(crc[2] % 256, data[lo]) + 1], Shr(crc, 8))
    ELSE LET mid == (lo + hi) \div 2
             left == CrcWrite(crc, data, lo, mid)
         IN  IF left[1] < 0 THEN left ELSE CrcWrite(left, data, mid + 1, hi)

\* CrcDigest::new(IEEE); digest.write(data); digest.sum32()
sum32(data) ==
    ByValue(data,
        Xor32(CrcWrite(<<65535, 65535>>, data, 1, Len(data)), <<65535, 65535>>))

----------------------------------------------------------------------------
(* u32 arithmetic on <<hi, lo>> pairs.                                     *)

\* u32::from_le_bytes(b) for 4 bytes b
from_le_bytes(b) == <<b[4] * 256 + b[3], b[2] * 256 + b[1]>>

\* u32::to_le_bytes(v)
to_le_bytes(v) == <<v[2] % 256, v[2] \div 256, v[1] % 256, v[1] \div 256>>

\* v / m for a u32 v and 3 <= m < 2^15: the quotient is below 2^31
Div32(v, m) == (v[1] \div m) * 65536 + ((v[1] % m) * 65536 + v[2]) \div m

----------------------------------------------------------------------------
(* curve25519_dalek::scalar::Scalar::from_bytes_mod_order(b).to_bytes():   *)
(* the 32 little-endian bytes of (b as a little-endian number) mod l,      *)
(* where l = 2^252 + 27742317777372353535851937790883648493 is the order   *)
(* of the base point.                                                      *)

BASEPOINT_ORDER ==
    <<237, 211, 245, 92, 26, 99, 18, 88, 214, 156, 247, 162, 222, 249, 222, 20,
      0, 0, 0, 0, 0, 0, 0, 0, 0, 0, 0, 0, 0, 0, 0, 16>>

\* the order of the little-endian numbers a[lo..hi] and b[lo..hi]: 1, 0 or
\* -1 as the first is the greater, the same or the smaller; the range is
\* halved, the more significant half deciding first
RECURSIVE Compare(_, _, _, _)
Compare(a, b, lo, hi) ==
    IF lo > hi THEN 0
    ELSE IF lo = hi
    THEN (IF a[lo] > b[lo] THEN 1 ELSE IF a[lo] < b[lo] THEN -1 ELSE 0)
    ELSE LET mid == (lo + hi) \div 2
             top == Compare(a, b, mid + 1, hi)
         IN  IF top # 0 THEN top ELSE Compare(a, b, lo, mid)

\* a >= b on the lowest i bytes of two little-endian byte strings
GreaterEq(a, b, i) == Compare(a, b, 1, i) >= 0

\* a - b on the bytes lo..hi, given the borrow into position lo: the bytes
\* of the difference and the borrow out of position hi
RECURSIVE SubBytes(_, _, _, _, _)
SubBytes(a, b, lo, hi, borrow) ==
    IF lo = hi
    THEN LET d == a[lo] - b[lo] - borrow
         IN  <<<<d % 256>>, IF d < 0 THEN 1 ELSE 0>>
    ELSE LET mid == (lo + hi) \div 2
             low == SubBytes(a, b, lo, mid, borrow)
             high == SubBytes(a, b, mid + 1, hi, low[2])
         IN  <<low[1] \o high[1], high[2]>>

\* twice a, for a little-endian byte string a below 2^(8 * Len(a) - 1)
Double(a) ==
    [i \in 1..Len(a) |->
        (2 * a[i] + (IF i = 1 THEN 0 ELSE a[i - 1] \div 128)) % 256]

\* a - m when a >= m, and a otherwise
ReduceOnce(a, m) ==
    ByValue(<<a, m>>,
        IF GreaterEq(a, m, Len(a)) THEN SubBytes(a, m, 1, Len(a), 0)[1] ELSE a)

\* bytes mod l: l is above 2^252, so bytes < 16 * l, and taking off 8l, 4l,
\* 2l and l, each when it fits, leaves the remainder
from_bytes_mod_order(bytes) ==
    LET l2 == Double(BASEPOINT_ORDER)
        l4 == Double(l2)
        l8 == Double(l4)
        r8 == ReduceOnce(bytes, l8)
        r4 == ReduceOnce(r8, l4)
        r2 == ReduceOnce(r4, l2)
    IN  ByValue(r8, ByValue(r4, ByValue(r2, ReduceOnce(r2, BASEPOINT_ORDER))))

----------------------------------------------------------------------------
(* The two cryptographic primitives the program calls and does not         *)
(* implement.  Neither Keccak-256 nor the multiplication of the Ed25519    *)
(* base point is computed here: each is replaced by a fixed function of    *)
(* the same shape (bytes in, 32 bytes out; order sensitive), so that what  *)
(* the program feeds to them and what it does with their results can be    *)
(* checked.  Nothing below relies on any other property of them.           *)

\* hasher.update(data), bytes lo..hi of it; the range is halved so that
\* the evaluation stays shallow on long data
RECURSIVE Absorb(_, _, _, _)
Absorb(st, data, lo, hi) ==
    IF lo > hi THEN st
    ELSE IF lo = hi
    THEN <<(st[1] * 131 + data[lo] + 1) % 1000003,
           (st[2] * 137 + data[lo] + 3) % 999983>>
    ELSE LET mid == (lo + hi) \div 2
             left == Absorb(st, data, lo, mid)
         IN  IF left[1] < 0 THEN left ELSE Absorb(left, data, mid + 1, hi)

\* keccak256(data): Keccak256::new(); update(data); finalize()
keccak256(data) ==
    LET st == ByValue(data, Absorb(<<Len(data), 7>>, data, 1, Len(data)))
    IN  SubSeq([k \in 1..32 |-> ((st[1] * k + st[2] * (33 - k)) \div 3) % 256], 1, 32)

\* (scalar * ED25519_BASEPOINT_TABLE).compress().as_bytes(), for the
\* canonical bytes of a scalar; one to one on them
BasepointMul(scalar) ==
    ByValue(scalar,
        SubSeq([k \in 1..32 |-> (scalar[33 - k] * 3 + 17 * k) % 256], 1, 32))

\* PrivateKey::to_public_key
to_public_key(key) ==
    LET private == from_bytes_mod_order(key)
    IN  ByValue(private, BasepointMul(private))

----------------------------------------------------------------------------
(* base58_monero::base58::encode: the bytes are cut into blocks of 8, each *)
(* block read as a big-endian number and written as 11 base-58 digits; a   *)
(* last block of k < 8 bytes is written as ENCODED_BLOCK_SIZES[k] digits.  *)

BASE58_CHARS ==
    <<49, 50, 51, 52, 53, 54, 55, 56, 57, 65, 66, 67, 68, 69, 70, 71, 72, 74,
      75, 76, 77, 78, 80, 81, 82, 83, 84, 85, 86, 87, 88, 89, 90, 97, 98, 99, 100, 101, 102, 103, 104, 105, 106, 107, 109, 110, 111, 112, 113, 114, 115, 116, 117, 118, 119, 120, 121, 122>>

ENCODED_BLOCK_SIZES == <<0, 2, 3, 5, 6, 7, 9, 10, 11>>

\* the big-endian number b divided by 58: the bytes of the quotient from
\* position i on, followed by the remainder; r is the remainder so far
RECURSIVE Div58(_, _, _)
Div58(b, i, r) ==
    IF i > Len(b) THEN <<r>>
    ELSE LET t == r * 256 + b[i]
         IN  <<t \div 58>> \o Div58(b, i + 1, t % 58)

\* the last `size` base-58 digits of the big-endian number b, as characters
RECURSIVE encode_block(_, _)
encode_block(b, size) ==
    IF size = 0 THEN <<>>
    ELSE LET d == Div58(b, 1, 0)
         IN  IF Len(d) = 0 THEN <<>>
             ELSE encode_block(SubSeq(d, 1, Len(b)), size - 1)
                    \o <<BASE58_CHARS[d[Len(b) + 1] + 1]>>

\* the encoded blocks lo..hi of bytes, in order
RECURSIVE base58_encode_from(_, _, _)
base58_encode_from(bytes, lo, hi) ==
    IF lo > hi THEN <<>>
    ELSE IF lo = hi
    THEN LET i == 8 * lo - 7
             j == IF i + 7 > Len(bytes) THEN Len(bytes) ELSE i + 7
         IN  encode_block(SubSeq(bytes, i, j), ENCODED_BLOCK_SIZES[j - i + 2])
    ELSE base58_encode_from(bytes, lo, (lo + hi) \div 2)
            \o base58_encode_from(bytes, (lo + hi) \div 2 + 1, hi)

base58_encode(bytes) ==
    ByValue(bytes, base58_encode_from(bytes, 1, (Len(bytes) + 7) \div 8))

----------------------------------------------------------------------------
(* The checksum word, as generate() and seed_words() both compute it.      *)

\* the strings lo..hi of a list, joined in order
RECURSIVE concat_range(_, _, _)
concat_range(strings, lo, hi) ==
    IF lo > hi THEN <<>>
    ELSE IF lo = hi THEN strings[lo]
    ELSE concat_range(strings, lo, (lo + hi) \div 2)
            \o concat_range(strings, (lo + hi) \div 2 + 1, hi)

\* strings.concat()
concat(strings) == concat_range(strings, 1, Len(strings))

\* words.iter().map(|w| w.chars().take(TRIM_LENGTH).collect())
trimmed_seed_words(ws) == [k \in 1..Len(ws) |-> Trim(ws[k])]

\* last_word, had the digest been written the untrimmed words
last_word_untrimmed(ws) == ws[Mod32(sum32(concat(ws)), Len(ws)) + 1]

\* words[(digest.sum32() % words.len() as u32) as usize], the digest having
\* been written the concatenated trimmed words
last_word(ws) ==
    ws[Mod32(sum32(concat(trimmed_seed_words(ws))), Len(ws)) + 1]

----------------------------------------------------------------------------
(* Seed::seed_words                                                        *)

\* three_words, had the second and third word not been chained to the one
\* before
three_words_unchained(index) ==
    LET w1 == Mod32(index, length)
        w2 == Div32(index, length) % length
        w3 == (Div32(index, length) \div length) % length
    IN  <<ENGLISH(w1), ENGLISH(w2), ENGLISH(w3)>>

\* the three words of one 4-byte interval, index being its u32
three_words(index) ==
    LET w1 == Mod32(index, length)
        w2 == (Div32(index, length) + w1) % length
        w3 == ((Div32(index, length) \div length) + w2) % length
    IN  <<ENGLISH(w1), ENGLISH(w2), ENGLISH(w3)>>

seed_words(inner) ==
    LET scalar == from_bytes_mod_order(inner)
        inputs == [c \in 1..(Len(scalar) \div 4) |->
                      from_le_bytes(SubSeq(scalar, 4 * c - 3, 4 * c))]
        ws == concat([c \in 1..Len(inputs) |-> three_words(inputs[c])])
    IN  ByValue(scalar, ByValue(ws, Ok(Append(ws, last_word(ws)))))

----------------------------------------------------------------------------
(* Seed::from_seed_words                                                   *)

\* chunk_value, had the word before been added instead of taken off
chunk_value_sum(w1, w2, w3) ==
    LET n == length
        a == (w1 + w2) % n
        b == (w2 + w3) % n
        low == w1 + n * a + ((n * n) % 65536) * b
        high == ((n * n) \div 65536) * b
    IN  <<high + (low \div 65536), low % 65536>>

\* x = w1 + n * (((n - w1) + w2) % n) + n * n * (((n - w2) + w3) % n), a
\* usize (64 bits, so the sum itself does not wrap), given as
\* <<x div 2^16, x mod 2^16>>
chunk_value(w1, w2, w3) ==
    LET n == length
        a == ((n - w1) + w2) % n
        b == ((n - w2) + w3) % n
        low == w1 + n * a + ((n * n) % 65536) * b
        high == ((n * n) \div 65536) * b
    IN  <<high + (low \div 65536), low % 65536>>

\* u32::try_from(x)
try_from(x) == IF x[1] < 65536 THEN Ok(x) ELSE Err("IntegerOverflow", <<>>)

\* one turn of `for chunk in chunks`, on chunk c: the error that ends the
\* loop there, or the four bytes the turn appends to the buffer
decode_chunk(ws, c) ==
    LET w1 == find_word_index(trimmed_words_list, Trim(ws[3 * c - 2]))
        w2 == find_word_index(trimmed_words_list, Trim(ws[3 * c - 1]))
        w3 == find_word_index(trimmed_words_list, Trim(ws[3 * c]))
    IN  IF ~w1.ok THEN w1
        ELSE IF ~w2.ok THEN w2
        ELSE IF ~w3.ok THEN w3
        ELSE LET x == try_from(chunk_value(w1.val, w2.val, w3.val))
             IN  IF ~x.ok THEN x ELSE Ok(to_le_bytes(x.val))

\* the loop over seed_words.chunks(3): the error of the first turn that
\* fails, or the Seed of the buffer the turns fill
decode_chunks(ws) ==
    LET turns == ByValue(ws, [c \in 1..(Len(ws) \div 3) |-> decode_chunk(ws, c)])
        failed == {c \in DOMAIN turns : ~turns[c].ok}
    IN  IF failed # {}
        THEN turns[CHOOSE c \in failed : \A e \in failed : c <= e]
        ELSE Ok([inner |-> concat([c \in DOMAIN turns |-> turns[c].val])])

\* from_seed_words, had the words been looked up before the count is checked
from_seed_words_late(ws) ==
    LET r == decode_chunks(SubSeq(ws, 1, Len(ws) - 1))
    IN  IF ~r.ok THEN r
        ELSE IF Len(ws) # 25 THEN Err("NotEnoughSeedWords", <<>>)
        ELSE r

from_seed_words(ws) ==
    IF Len(ws) # 25
    THEN Err("NotEnoughSeedWords", <<>>)
    ELSE decode_chunks(SubSeq(ws, 1, Len(ws) - 1))

----------------------------------------------------------------------------
(* Seed::generate                                                          *)

\* entropy.iter().flat_map(|&b| format!("{:08b}", b).chars()): the bits of
\* each byte, most significant first, as the digits 0 and 1
entropy_bits(bytes) ==
    [k \in 1..(8 * Len(bytes)) |->
        (bytes[((k - 1) \div 8) + 1] \div (2 ^ (7 - ((k - 1) % 8)))) % 2]

\* the number the binary digits lo..hi of bits spell
RECURSIVE radix_range(_, _, _)
radix_range(bits, lo, hi) ==
    IF lo > hi THEN 0
    ELSE IF lo = hi THEN bits[lo]
    ELSE LET mid == (lo + hi) \div 2
         IN  radix_range(bits, lo, mid) * (2 ^ (hi - mid))
                + radix_range(bits, mid + 1, hi)

\* usize::from_str_radix(bits, 2)
from_str_radix(bits) == ByValue(bits, radix_range(bits, 1, Len(bits)))

\* slice_step, had every word been closed after 11 bits
slice_step_uniform(st, bit) ==
    LET current_bits == Append(st.current_bits, bit)
    IN  IF Len(current_bits) = 11
        THEN [words |-> Append(st.words,
                               ENGLISH(from_str_radix(current_bits) % length)),
              current_bits |-> <<>>]
        ELSE [words |-> st.words, current_bits |-> current_bits]

\* one turn of `for bit in entropy_bits`
slice_step(st, bit) ==
    LET current_bits == Append(st.current_bits, bit)
    IN  IF (Len(st.words) = 23 /\ Len(current_bits) = 3) \/ Len(current_bits) = 11
        THEN [words |-> Append(st.words,
                               ENGLISH(from_str_radix(current_bits) % length)),
              current_bits |-> <<>>]
        ELSE [words |-> st.words, current_bits |-> current_bits]

\* the turns for bits lo..hi, in order
RECURSIVE slice_loop(_, _, _, _)
slice_loop(st, bits, lo, hi) ==
    IF lo > hi THEN st
    ELSE IF lo = hi THEN slice_step(st, bits[lo])
    ELSE LET half == slice_loop(st, bits, lo, (lo + hi) \div 2)
         IN  IF Len(half.words) < 0 THEN half
             ELSE slice_loop(half, bits, (lo + hi) \div 2 + 1, hi)

\* the whole loop: the words and the bits left over
bit_slices(bytes) ==
    slice_loop([words |-> <<>>, current_bits |-> <<>>],
               entropy_bits(bytes), 1, 8 * Len(bytes))

\* generate() up to its last line: the 25 words it hands to from_seed_words
generate_words(bytes) ==
    LET ws == bit_slices(bytes).words
    IN  ByValue(ws,
            IF Len(ws) # 24
            THEN Err("DidntGenerateEnoughWords", <<>>)
            ELSE Ok(Append(ws, last_word(ws))))

generate(bytes) ==
    LET ws == generate_words(bytes)
    IN  ByValue(ws, IF ws.ok THEN from_seed_words(ws.val) ELSE ws)

----------------------------------------------------------------------------
(* Keys and Seed::to_address                                               *)

\* Network::network_byte() (mod network, not part of the sources at hand):
\* the two networks of the tests, with the bytes their expected addresses
\* start from
Networks == {"Mainnet", "Stagenet"}

network_byte(N) == IF N = "Mainnet" THEN 18 ELSE 24

\* private_spend_key, had the entropy been taken as the key unreduced
private_spend_key_raw(inner) == inner

private_spend_key(inner) == from_bytes_mod_order(inner)

\* private_view_key, had the entropy been hashed instead of the spend key
private_view_key_of_entropy(inner) == from_bytes_mod_order(keccak256(inner))

private_view_key(inner) ==
    LET spend == private_spend_key(inner)
        hash == ByValue(spend, keccak256(spend))
    IN  ByValue(hash, from_bytes_mod_order(hash))

\* the bytes to_address hands to base58::encode
address_bytes(inner, N) ==
    LET spend == to_public_key(private_spend_key(inner))
        view == to_public_key(private_view_key(inner))
        bytes == ByValue(spend, ByValue(view, <<network_byte(N)>> \o spend \o view))
        checksum_bytes == SubSeq(bytes, 1, 65)
        checksum == ByValue(bytes, keccak256(checksum_bytes))
    IN  ByValue(checksum, bytes \o SubSeq(checksum, 1, 4))

to_address(inner, N) == Ok(base58_encode(address_bytes(inner, N)))

----------------------------------------------------------------------------
(* The inputs the operations are tried on.                                 *)

\* 32 bytes: a lowest byte, 30 equal bytes, a highest byte
Bytes32(low, mid, top) == <<low>> \o [k \in 1..30 |-> mid] \o <<top>>

\* Entropy given to Seed::new and bytes the random source may return: small
\* and large values, values below and at or above BASEPOINT_ORDER, and one
\* whose bits 1..33 spell the word indices 0, 1, 0.
EntropyInputs ==
    {Bytes32(low, mid, top) : low \in 0..MaxLow, mid \in {0, 255}, top \in {0, 16, 255}}
        \cup {BASEPOINT_ORDER, <<0, 0, 4>> \o [k \in 1..29 |-> 0]}

\* A word that starts like dictionary word i: the word itself (t = 0), or
\* its first TRIM_LENGTH characters followed by t - 1 other characters.
Variant(i, t) ==
    IF t = 0 THEN ENGLISH(i) ELSE Trim(ENGLISH(i)) \o [k \in 1..(t - 1) |-> 113]

\* The triples of word indices a phrase repeats: small indices, and triples
\* whose value lies just below and just above 2^32.
Triples ==
    {<<i, j, k>> : i \in 0..MaxIdx, j \in 0..MaxIdx, k \in 0..MaxIdx}
        \cup {<<0, 0, 1624>>, <<0, 0, 1625>>, <<0, 800, 798>>, <<0, 900, 898>>}

\* the 24 data words that repeat triple T, in variant t
DataWords(T, t) == [k \in 1..24 |-> Variant(T[((k - 1) % 3) + 1], t)]

\* words that are in no dictionary: too short, and with an unused prefix
ShortWord == <<97, 98>>
AlienWord == <<122, 122, 122, 113>>

\* Well-formed phrases: 24 data words and a 25th word that is either the
\* checksum word or a word of no dictionary.
GoodPhrases ==
    {Append(DataWords(T, t), last_word(DataWords(T, t))) : T \in Triples, t \in 0..MaxTail}
        \cup {Append(DataWords(T, t), AlienWord) : T \in Triples, t \in 0..MaxTail}

\* phrase P with its k-th word replaced by w
Replace(P, k, w) == [P EXCEPT ![k] = w]

\* Phrases with an unknown word, and phrases of a wrong length.
BadPhrases ==
    LET P == Append(DataWords(<<0, 0, 0>>, 0), ENGLISH(0))
        Q == Append(DataWords(<<0, 1, 0>>, 0), ENGLISH(0))
    IN  {Replace(P, 1, AlienWord), Replace(P, 2, ShortWord), Replace(P, 24, AlienWord),
         Replace(Replace(P, 5, AlienWord), 6, ShortWord),
         Replace(Q, 4, AlienWord), Replace(Q, 3, ShortWord),
         Replace(Append(DataWords(<<0, 0, 0>>, 1), AlienWord), 1, <<122, 122, 122>>),
         <<>>, SubSeq(P, 1, 24), Append(P, ENGLISH(0)),
         [k \in 1..24 |-> ShortWord], [k \in 1..26 |-> AlienWord],
         SubSeq(Q, 1, 3)}

PhraseInputs == GoodPhrases \cup BadPhrases

----------------------------------------------------------------------------
(* The operations.  The caller holds one Seed at a time: it calls a        *)
(* constructor when it is idle, and Drop discards what it holds (the Seed, *)
(* or the error the constructor returned) and makes it idle again.         *)

Idle == [op |-> "none", arg |-> <<>>]

Init ==
    /\ seed = NoSeed
    /\ origin = NoSeed
    /\ words = <<>>
    /\ input = <<>>
    /\ entropy = <<>>
    /\ call = Idle
    /\ ret = Ok(<<>>)

\* Seed::new(E)
New(E) ==
    /\ call = Idle
    /\ seed' = [inner |-> E]
    /\ origin' = NoSeed
    /\ words' = <<>>
    /\ input' = <<>>
    /\ entropy' = <<>>
    /\ call' = [op |-> "new", arg |-> E]
    /\ ret' = Ok([inner |-> E])

\* Seed::generate(), the random source returning R
Generate(R) ==
    /\ call = Idle
    /\ LET ws == generate_words(R)
           r == generate(R)
       IN  /\ seed' = IF r.ok THEN r.val ELSE NoSeed
           /\ input' = IF ws.ok THEN ws.val ELSE <<>>
           /\ ret' = r
    /\ origin' = NoSeed
    /\ words' = <<>>
    /\ entropy' = R
    /\ call' = [op |-> "generate", arg |-> <<>>]

\* Seed::from_seed_words(P), on a phrase the caller was given
FromSeedWords(P) ==
    /\ call = Idle
    /\ LET r == from_seed_words(P)
       IN  /\ seed' = IF r.ok THEN r.val ELSE NoSeed
           /\ ret' = r
    /\ origin' = NoSeed
    /\ words' = <<>>
    /\ input' = P
    /\ entropy' = <<>>
    /\ call' = [op |-> "from_seed_words", arg |-> P]

\* seed.seed_words()
SeedWords ==
    /\ seed # NoSeed
    /\ LET r == seed_words(seed.inner)
       IN  /\ words' = r.val
           /\ ret' = r
    /\ origin' = seed
    /\ call' = [op |-> "seed_words", arg |-> <<>>]
    /\ UNCHANGED <<seed, input, entropy>>

\* Seed::from_seed_words(&seed.seed_words().unwrap()): the phrase the seed
\* at hand gave is read back, and the new Seed replaces it
Reimport ==
    /\ seed # NoSeed
    /\ words # <<>>
    /\ origin = seed
    /\ LET r == from_seed_words(words)
       IN  /\ seed' = IF r.ok THEN r.val ELSE NoSeed
           /\ ret' = r
    /\ input' = words
    /\ call' = [op |-> "reimport", arg |-> words]
    /\ UNCHANGED <<origin, words, entropy>>

\* seed.to_address::<N>()
ToAddress(N) ==
    /\ seed # NoSeed
    /\ ret' = to_address(seed.inner, N)
    /\ call' = [op |-> "to_address", arg |-> N]
    /\ UNCHANGED <<seed, origin, words, input, entropy>>

\* the caller lets go of what it holds
Drop ==
    /\ call # Idle
    /\ seed' = NoSeed
    /\ origin' = NoSeed
    /\ words' = <<>>
    /\ input' = <<>>
    /\ entropy' = <<>>
    /\ call' = Idle
    /\ ret' = Ok(<<>>)

Next ==
    \/ \E E \in EntropyInputs : New(E)
    \/ \E R \in EntropyInputs : Generate(R)
    \/ \E P \in PhraseInputs : FromSeedWords(P)
    \/ SeedWords
    \/ Reimport
    \/ \E N \in Networks : ToAddress(N)
    \/ Drop

Spec == Init /\ [][Next]_vars

----------------------------------------------------------------------------
(* Vocabulary of the properties.                                           *)

\* the first three characters of a word (all of it when it is shorter)
First3(w) == SubSeq(w, 1, IF Len(w) < 3 THEN Len(w) ELSE 3)

\* w is a word of the dictionary
IsDictionaryWord(w) ==
    /\ Slot(w) \in 0..(length - 1)
    /\ ENGLISH(Slot(w)) = w

\* the bytes are a number below the order of the base point
BelowOrder(bytes) == ~GreaterEq(bytes, BASEPOINT_ORDER, Len(bytes))

\* the index the checksum hash of the first 24 words of P selects
ChecksumIndex(P) ==
    Mod32(sum32(concat([k \in 1..24 |-> First3(P[k])])), 24)

\* P is 25 dictionary words of which the 25th is the checksum word
IsChecksummedPhrase(P) ==
    /\ Len(P) = 25
    /\ \A k \in 1..25 : IsDictionaryWord(P[k])
    /\ P[25] = P[ChecksumIndex(P) + 1]

\* the caller handed `input` to from_seed_words, and `seed` is what it got
GivenPhrase == input # <<>> /\ entropy = <<>>

\* the last call was that call of from_seed_words
Decoded == call.op \in {"from_seed_words", "reimport"}

\* the value of the n bits of `bytes` from bit `from` on, the bits counted
\* from 1, the most significant bit of each byte first
RECURSIVE BitsValue(_, _, _)
BitsValue(bytes, from, n) ==
    IF n = 0 THEN 0
    ELSE LET k == from + n - 2
         IN  (2 * BitsValue(bytes, from, n - 1))
                + ((bytes[(k \div 8) + 1] \div (2 ^ (7 - (k % 8)))) % 2)

\* the 69 bytes of an address, from the definitions of the keys
ExpectedAddressBytes(inner, N) ==
    LET spend == from_bytes_mod_order(inner)
        view == from_bytes_mod_order(keccak256(spend))
        payload == <<network_byte(N)>> \o BasepointMul(spend) \o BasepointMul(view)
    IN  payload \o SubSeq(keccak256(payload), 1, 4)

----------------------------------------------------------------------------
(* The properties.                                                         *)

\* C1, as stated: reading back the phrase of a seed gives a seed with the
\* same 32 bytes, whatever the bytes are.
C1_RoundTrip ==
    call.op = "reimport" => (ret.ok /\ seed.inner = origin.inner)

\* C1, amended: reading back the phrase of a seed with bytes E succeeds and
\* gives the bytes of E reduced modulo the order of the base point; these
\* are E itself exactly when E is below the order.
C1_RoundTripReduced ==
    call.op = "reimport" =>
        /\ ret.ok
        /\ seed.inner = from_bytes_mod_order(origin.inner)
        /\ BelowOrder(seed.inner)
        /\ (seed.inner = origin.inner) <=> BelowOrder(origin.inner)

\* a seed made by Seed::new from bytes at or above the order was read back
C1_Witness ==
    /\ call.op = "reimport"
    /\ ret.ok
    /\ origin.inner = Bytes32(1, 255, 255)
    /\ seed.inner # origin.inner

\* C2, as stated: every phrase of 25 dictionary words with the right
\* checksum word is accepted by from_seed_words, and seed_words() of the
\* seed it gives returns the same phrase.
C2_PhraseStable ==
    (GivenPhrase /\ IsChecksummedPhrase(input)) =>
        /\ Decoded => ret.ok
        /\ (seed # NoSeed /\ origin = seed /\ words # <<>>) => words = input

\* C2, amended: from_seed_words rejects such a phrase only with the overflow
\* error; when it accepts the phrase and the bytes it decodes to are below
\* the order of the base point, seed_words() returns the same phrase.
C2_PhraseStableBelowOrder ==
    (GivenPhrase /\ IsChecksummedPhrase(input)) =>
        /\ (Decoded /\ ~ret.ok) => ret.err = "IntegerOverflow"
        /\ (seed # NoSeed /\ BelowOrder(seed.inner) /\ origin = seed /\ words # <<>>)
                => words = input

\* a checksummed phrase other than the all-zero one was decoded and given
\* back by seed_words()
C2_Witness ==
    /\ call.op = "seed_words"
    /\ GivenPhrase
    /\ IsChecksummedPhrase(input)
    /\ BelowOrder(seed.inner)
    /\ seed.inner # [k \in 1..32 |-> 0]
    /\ words = input

\* C3: reading back the phrase of any seed succeeds, and the new seed has
\* the same phrase and, on each network, the same address as the old one.
C3_ReimportPreserves ==
    call.op = "reimport" =>
        /\ ret.ok
        /\ seed_words(seed.inner) = Ok(words)
        /\ \A N \in Networks :
                to_address(seed.inner, N) = to_address(origin.inner, N)

\* the phrase of a seed that generate() returned was read back, and the new
\* seed holds other bytes than the old one
C3_Witness ==
    /\ call.op = "reimport"
    /\ ret.ok
    /\ entropy # <<>>
    /\ seed # origin

\* C4: seed_words() returns 25 words, the 25th being the one of the first
\* 24 at the index (checksum hash of their 3-character prefixes) mod 24.
C4_ChecksumWord ==
    call.op = "seed_words" =>
        /\ ret.ok
        /\ Len(ret.val) = 25
        /\ ret.val[25] = ret.val[ChecksumIndex(ret.val) + 1]
        /\ \E k \in 1..24 : ret.val[25] = ret.val[k]

\* seed_words() returned a phrase whose checksum word is not its first word
C4_Witness ==
    /\ call.op = "seed_words"
    /\ Len(ret.val) = 25
    /\ ChecksumIndex(ret.val) > 0
    /\ ret.val[25] # ret.val[1]

\* C5: from_seed_words on a sequence of other than 25 words returns the
\* word-count error and no Seed, whatever the words are.
C5_WordCountFirst ==
    (call.op = "from_seed_words" /\ Len(call.arg) # 25) =>
        /\ ~ret.ok
        /\ ret.err = "NotEnoughSeedWords"
        /\ seed = NoSeed

\* 26 words of no dictionary were refused for their count
C5_Witness ==
    /\ call.op = "from_seed_words"
    /\ Len(call.arg) = 26
    /\ \A k \in 1..26 : ~IsDictionaryWord(call.arg[k])
    /\ ret.err = "NotEnoughSeedWords"

\* C6, as stated: generate() returns a Seed, never an error.
C6_GenerateSucceeds ==
    call.op = "generate" => ret.ok

\* C7, as stated: the seed generate() returns holds the random bytes drawn.
C7_GenerateKeepsEntropy ==
    (call.op = "generate" /\ ret.ok) => seed.inner = entropy

\* C8: to_address leaves the seed as it is and returns the base58 text of
\* 69 bytes: the network byte, the public point of reduce(entropy), the
\* public point of reduce(Hash(reduce(entropy))), and the first 4 bytes of
\* the hash of those 65 bytes.
C8_AddressBytes ==
    [][\A N \in Networks :
        (call'.op = "to_address" /\ call'.arg = N) =>
            LET bytes == ExpectedAddressBytes(seed.inner, N)
            IN  /\ seed' = seed
                /\ Len(bytes) = 69
                /\ bytes[1] = network_byte(N)
                /\ ret' = Ok(base58_encode(bytes))]_vars

\* the address of a seed whose bytes are at or above the order was asked for
C8_Witness ==
    /\ call.op = "to_address"
    /\ ret.ok
    /\ ~BelowOrder(seed.inner)
    /\ Len(ret.val) = 95

\* C9: the outcome of from_seed_words on 25 words is the outcome on any
\* other 25 words that agree with them, word by word over the first 24, on
\* the first three characters.
C9_PrefixesDecide ==
    (call.op = "from_seed_words" /\ Len(call.arg) = 25) =>
        \A Q \in PhraseInputs :
            (/\ Len(Q) = 25
             /\ \A k \in 1..24 : First3(Q[k]) = First3(call.arg[k]))
                => from_seed_words(Q) = ret

\* a phrase was decoded of which no data word is a dictionary word and the
\* 25th word starts like none
C9_Witness ==
    /\ call.op = "from_seed_words"
    /\ ret.ok
    /\ \A k \in 1..25 : ~IsDictionaryWord(call.arg[k])
    /\ seed.inner # [k \in 1..32 |-> 0]
    /\ \E Q \in PhraseInputs :
            /\ Q # call.arg
            /\ Len(Q) = 25
            /\ \A k \in 1..24 : First3(Q[k]) = First3(call.arg[k])

\* C10: the loop of generate() gives 24 words: word k <= 23 is the word at
\* (bits 11k-10..11k of the entropy) mod length, word 24 the word at (bits
\* 254..256) mod length; no bit is left over, every index is below length,
\* and the not-enough-words error is not returned.
C10_BitSlices ==
    call.op = "generate" =>
        /\ Len(input) = 25
        /\ \A k \in 1..23 :
                input[k] = ENGLISH(BitsValue(entropy, 11 * k - 10, 11) % length)
        /\ input[24] = ENGLISH(BitsValue(entropy, 254, 3) % length)
        /\ \A k \in 1..24 : IsDictionaryWord(input[k])
        /\ bit_slices(entropy).current_bits = <<>>
        /\ Len(bit_slices(entropy).words) = 24
        /\ ret.err # "DidntGenerateEnoughWords"

\* generate() sliced entropy whose last three bits are not all zero and
\* whose 11-bit groups reach past the end of the dictionary
C10_Witness ==
    /\ call.op = "generate"
    /\ Len(input) = 25
    /\ input[24] # ENGLISH(0)
    /\ BitsValue(entropy, 12, 11) >= length

====
